---------------------------- MODULE Spec2Model ----------------------------
(***************************************************************************)
(* The QR payload lifecycle of H2RMS, as written in                        *)
(* docs/guides/qr-code-usage.md: QRCodeGenerator (utils/qrGenerator.js),   *)
(* QRCodeProcessor (utils/qrProcessor.js), the POST /qr/generate and POST  *)
(* /qr/process handlers (pages/api/qr/generate.js, process.js) and the     *)
(* helpers of "Security Considerations" (secureQRGeneration,               *)
(* secureQRProcessing).                                                    *)
(*                                                                         *)
(* JavaScript values are records [t, s, n, h]: t is the typeof tag, s the  *)
(* characters of a string, n the number, h the preimage of a hex digest    *)
(* (a digest is modelled by what it was computed from: an ideal hash).     *)
(* An object is the sequence of its own properties in insertion order.     *)
(* Inside the helper objects `this` is read as the helper object itself;   *)
(* for checkRateLimit the literal reading is kept beside it.               *)
(* Synchronous code runs within one millisecond: every Date.now() of one   *)
(* synchronous stretch reads the same clock value, except in               *)
(* GenerateRequest, where the two reads of a generator may differ.         *)
(*                                                                         *)
(* Spec: the generators and POST /qr/process.  SpecDirect: the methods of  *)
(* QRCodeProcessor called one by one.  SpecGenerate: POST /qr/generate.    *)
(* SpecReplay, SpecReplayFair: secureQRProcessing and its timers.          *)
(* SpecSign: signQRData / verifyQRData.  SpecRate: checkRateLimit.         *)
(*                                                                         *)
(* Beside the QR guide: withAuth of docs/api/authentication.md (SpecAuth), *)
(* the row-level policies of leave_requests and the UNIQUE constraint of   *)
(* attendance in supabase/schema-fixed.sql with createAttendanceRecord of  *)
(* lib/supabase.ts (SpecLeave, SpecAttendance), and debounce and throttle  *)
(* of lib/utils.ts (SpecDebounce, SpecThrottle).                           *)
(***************************************************************************)
EXTENDS Integers, Sequences, FiniteSets, TLC

VARIABLES now, ticks, qr, given, req, processedQRs, timers, gen, call,
          sig, rateLimitQRGeneration, rate, auth,
          profiles, leave_requests, leaveOp, attendance, attendanceOp,
          deb, thr

(* qrVars: the state of the QR lifecycle (clock included).  libVars: the   *)
(* state of the other helpers, one group each.                             *)
qrState == <<qr, given, req, processedQRs, timers, gen, call>>
qrVars == <<now, ticks, qr, given, req, processedQRs, timers, gen, call>>
sigVars == <<sig>>
rateVars == <<rateLimitQRGeneration, rate>>
authVars == <<auth>>
leaveVars == <<profiles, leave_requests, leaveOp>>
attendanceVars == <<attendance, attendanceOp>>
debVars == <<deb>>
thrVars == <<thr>>
libVars == <<sigVars, rateVars, authVars, leaveVars, attendanceVars, debVars, thrVars>>
vars == <<qrVars, libVars>>
(* What the actions of one group leave alone. *)
exceptSig == <<qrVars, rateVars, authVars, leaveVars, attendanceVars, debVars, thrVars>>
exceptRate == <<qrState, sigVars, authVars, leaveVars, attendanceVars, debVars, thrVars>>
exceptAuth == <<qrVars, sigVars, rateVars, leaveVars, attendanceVars, debVars, thrVars>>
exceptLeave == <<qrVars, sigVars, rateVars, authVars, attendanceVars, debVars, thrVars>>
exceptAttendance == <<qrVars, sigVars, rateVars, authVars, leaveVars, debVars, thrVars>>
exceptDeb == <<qrState, sigVars, rateVars, authVars, leaveVars, attendanceVars, thrVars>>
exceptThr == <<qrState, sigVars, rateVars, authVars, leaveVars, attendanceVars, debVars>>

(***************************** bounds **************************************)
MaxTicks == 2
MaxRecords == 1
MaxCalls == 11
MaxRequests == 1
MaxDebounced == 3
MaxThrottled == 3

(************************* program constants *******************************)
DAY_MS == 24 * 60 * 60 * 1000
WEEK_MS == 7 * 24 * 60 * 60 * 1000
RETENTION_MS == 3600000
WINDOW_MS == 60000
RATE_LIMIT == 10

(* The clock value at which the model starts, and the steps it advances by. *)
T0 == DAY_MS
Steps == {1, DAY_MS}

EmployeeIds == {"emp-1", "emp-2"}
LocationIds == {"loc-9"}
DocumentIds == {"doc-1"}
Users == EmployeeIds
SecretKey == "k1"
Requests == {"req1", "req2"}

(*************************** JavaScript values *****************************)
NoDigest == [key |-> "", msg |-> <<>>]
Undefined == [t |-> "undefined", s |-> "", n |-> 0, h |-> NoDigest]
Null == [t |-> "null", s |-> "", n |-> 0, h |-> NoDigest]
Str(x) == [t |-> "string", s |-> x, n |-> 0, h |-> NoDigest]
Num(x) == [t |-> "number", s |-> "", n |-> x, h |-> NoDigest]
HexDigest(key, msg) == [t |-> "string", s |-> "hex", n |-> 0, h |-> [key |-> key, msg |-> msg]]

(* ToBoolean: the operand of `||` and `&&`. *)
Truthy(v) ==
  \/ v.t = "number" /\ v.n # 0
  \/ v.t = "string" /\ v.s # ""

(* `a > v` with a number on the left: a non-number on the right is NaN. *)
GreaterThan(a, v) == v.t = "number" /\ a > v.n

(****************************** objects ************************************)
Prop(k, v) == [k |-> k, v |-> v]
Keys(obj) == {obj[i].k : i \in DOMAIN obj}
HasOwnProperty(obj, k) == k \in Keys(obj)
Get(obj, k) ==
  IF HasOwnProperty(obj, k)
    THEN (CHOOSE p \in {obj[i] : i \in DOMAIN obj} : p.k = k).v
    ELSE Undefined

(* obj[k] = v: an existing property keeps its place, a new one goes last. *)
Put(obj, k, v) ==
  IF HasOwnProperty(obj, k)
    THEN [i \in DOMAIN obj |-> IF obj[i].k = k THEN Prop(k, v) ELSE obj[i]]
    ELSE Append(obj, Prop(k, v))

(* The rest object of `const { k, ...rest } = obj`. *)
Without(obj, k) == SelectSeq(obj, LAMBDA p : p.k # k)

(* JSON.stringify of an object: its properties in order, those whose value *)
(* is undefined left out.                                                  *)
JSONStringify(obj) == [form |-> "text", body |-> SelectSeq(obj, LAMBDA p : p.v.t # "undefined")]

(* JSON.parse of a text produced by JSON.stringify: the object is rebuilt  *)
(* property by property, a repeated key overwriting the earlier value.     *)
RECURSIVE ParseProps(_, _)
ParseProps(chars, acc) ==
  IF chars = <<>> THEN acc
  ELSE ParseProps(Tail(chars), Put(acc, Head(chars).k, Head(chars).v))

JSONParse(text) == ParseProps(text.body, <<>>)

(* What reaches validateQRData: a string holding JSON ("text"), a string   *)
(* that is not JSON ("garbage"), an object, null, or a number.             *)
Obj(obj) == [form |-> "object", body |-> obj]
Garbage == [form |-> "garbage", body |-> <<>>]
NullData == [form |-> "null", body |-> <<>>]
NumberData == [form |-> "number", body |-> <<>>]
NoData == [form |-> "none", body |-> <<>>]

(***************************** QRCodeGenerator *****************************)
(* QRCode.toDataURL renders the string; scanning the image yields it back. *)
generateDataURL(text) == [form |-> "png", body |-> text.body]
Scan(image) == [form |-> "text", body |-> image.body]

(* Mutant: the payload is built without its timestamp. *)
generateEmployeeQR_NoTimestamp(employeeId, expiresAt, clock, later) ==
  LET payload == << Prop("type", Str("employee_checkin")),
                    Prop("employeeId", employeeId),
                    Prop("expiresAt", IF Truthy(expiresAt) THEN expiresAt
                                      ELSE Num(later + DAY_MS)) >>
  IN generateDataURL(JSONStringify(payload))

(* clock, later: the two values of Date.now() the payload is built from,  *)
(* the first for timestamp, the second for the default expiresAt.          *)
generateEmployeeQR(employeeId, expiresAt, clock, later) ==
  LET payload == << Prop("type", Str("employee_checkin")),
                    Prop("employeeId", employeeId),
                    Prop("timestamp", Num(clock)),
                    Prop("expiresAt", IF Truthy(expiresAt) THEN expiresAt
                                      ELSE Num(later + DAY_MS)) >>
  IN generateDataURL(JSONStringify(payload))

generateLocationQR(locationId, locationName, clock) ==
  LET payload == << Prop("type", Str("location_checkin")),
                    Prop("locationId", locationId),
                    Prop("locationName", locationName),
                    Prop("timestamp", Num(clock)) >>
  IN generateDataURL(JSONStringify(payload))

(* Mutant: a document code expires after one day. *)
generateDocumentQR_OneDay(documentId, accessLevelArg, clock, later) ==
  LET accessLevel == IF accessLevelArg.t = "undefined" THEN Str("read") ELSE accessLevelArg
      payload == << Prop("type", Str("document_access")),
                    Prop("documentId", documentId),
                    Prop("accessLevel", accessLevel),
                    Prop("timestamp", Num(clock)),
                    Prop("expiresAt", Num(later + DAY_MS)) >>
  IN generateDataURL(JSONStringify(payload))

generateDocumentQR(documentId, accessLevelArg, clock, later) ==
  LET accessLevel == IF accessLevelArg.t = "undefined" THEN Str("read") ELSE accessLevelArg
      payload == << Prop("type", Str("document_access")),
                    Prop("documentId", documentId),
                    Prop("accessLevel", accessLevel),
                    Prop("timestamp", Num(clock)),
                    Prop("expiresAt", Num(later + WEEK_MS)) >>
  IN generateDataURL(JSONStringify(payload))

(**************************** generateQRHandler ****************************)
(* POST /api/qr/generate.  type and data are the fields of req.body; data  *)
(* is an object or is missing.  The response: its status, its error, and   *)
(* on success the image and the expiresAt it reports.                      *)
ErrGenMethod == "Method not allowed"
ErrInvalidType == "Invalid QR code type"
ErrGenerate == "Failed to generate QR code"

GenError(status, msg) ==
  [status |-> status, error |-> msg, qrCode |-> NoData, expiresAt |-> Undefined]
GenOk(qrCode, data) ==
  [status |-> 200, error |-> "", qrCode |-> qrCode,
   expiresAt |-> IF Truthy(Get(data, "expiresAt")) THEN Get(data, "expiresAt") ELSE Null]

generateQRHandler(method, type, data, clock, later) ==
  IF method # "POST" THEN GenError(405, ErrGenMethod)
  ELSE IF type \notin {Str("employee_checkin"), Str("location_checkin"), Str("document_access")}
    THEN GenError(400, ErrInvalidType)
  ELSE IF data.form # "object" THEN GenError(500, ErrGenerate)
  ELSE CASE type = Str("employee_checkin") ->
              GenOk(generateEmployeeQR(Get(data.body, "employeeId"),
                                       Get(data.body, "expiresAt"), clock, later), data.body)
         [] type = Str("location_checkin") ->
              GenOk(generateLocationQR(Get(data.body, "locationId"),
                                       Get(data.body, "locationName"), clock), data.body)
         [] OTHER ->
              GenOk(generateDocumentQR(Get(data.body, "documentId"),
                                       Get(data.body, "accessLevel"), clock, later), data.body)

(*************************** secureQRGeneration ****************************)
signQRData(data, secretKey) ==
  Put(data, "signature", HexDigest(secretKey, JSONStringify(data).body))

(* Mutant: the signature is not taken out of what is hashed. *)
verifyQRData_KeepsSignature(data, secretKey) ==
  LET signature == Get(data, "signature")
      expectedSignature == HexDigest(secretKey, JSONStringify(data).body)
  IN signature = expectedSignature

verifyQRData(data, secretKey) ==
  LET signature == Get(data, "signature")
      payload == Without(data, "signature")
      expectedSignature == HexDigest(secretKey, JSONStringify(payload).body)
  IN signature = expectedSignature

(* An object with its properties in another order: f is a permutation of   *)
(* the positions.                                                          *)
Reordered(obj, f) == [i \in DOMAIN obj |-> obj[f[i]]]

(* sig: the payload last signed and its key, the object last submitted to  *)
(* verifyQRData with its key, and the result.                              *)
SigningKeys == {"k1", "k2"}
NoSignature ==
  [signed |-> <<>>, key |-> "", submitted |-> <<>>, verifyKey |-> "", verified |-> FALSE]

(***************************** QRCodeProcessor *****************************)
ErrSyntax == "Unexpected token in JSON"
ErrTypeError == "Cannot read properties of null (reading 'hasOwnProperty')"
ErrFormat == "Invalid QR code format"
ErrExpired == "QR code has expired"
ErrCheckinType == "Invalid QR code type for check-in"
ErrOtherEmployee == "QR code belongs to different employee"
ErrLocationType == "Invalid QR code type for location check-in"
ErrDocumentType == "Invalid QR code type for document access"
ErrCheckinFailed == "Check-in failed"
ErrLocationFailed == "Location check-in failed"
ErrDocumentFailed == "Document access failed"
ErrUnsupported == "Unsupported QR code type"
ErrMethod == "Method not allowed"
ErrReplay == "QR code already processed"

Invalid(msg) == [isValid |-> FALSE, data |-> <<>>, error |-> msg]
Valid(obj) == [isValid |-> TRUE, data |-> obj, error |-> ""]

requiredFields == <<"type", "timestamp">>

(* Mutant: the expiry comparison reversed. *)
validateObject_ExpiryReversed(data, clock) ==
  IF ~(\A i \in DOMAIN requiredFields : HasOwnProperty(data, requiredFields[i]))
    THEN Invalid(ErrFormat)
  ELSE IF Truthy(Get(data, "expiresAt")) /\ ~GreaterThan(clock, Get(data, "expiresAt"))
    THEN Invalid(ErrExpired)
  ELSE Valid(data)

(* Mutant: the required fields are not checked. *)
validateObject_NoRequiredFields(data, clock) ==
  IF Truthy(Get(data, "expiresAt")) /\ GreaterThan(clock, Get(data, "expiresAt"))
    THEN Invalid(ErrExpired)
  ELSE Valid(data)

(* Mutant: a payload without expiresAt is taken as expired. *)
validateObject_RequiresExpiry(data, clock) ==
  IF ~(\A i \in DOMAIN requiredFields : HasOwnProperty(data, requiredFields[i]))
    THEN Invalid(ErrFormat)
  ELSE IF ~Truthy(Get(data, "expiresAt")) \/ GreaterThan(clock, Get(data, "expiresAt"))
    THEN Invalid(ErrExpired)
  ELSE Valid(data)

(* The body of the try block once `data` is an object. *)
validateObject(data, clock) ==
  IF ~(\A i \in DOMAIN requiredFields : HasOwnProperty(data, requiredFields[i]))
    THEN Invalid(ErrFormat)
  ELSE IF Truthy(Get(data, "expiresAt")) /\ GreaterThan(clock, Get(data, "expiresAt"))
    THEN Invalid(ErrExpired)
  ELSE Valid(data)

validateQRData(data, clock) ==
  CASE data.form = "garbage" -> Invalid(ErrSyntax)
    [] data.form = "text" -> validateObject(JSONParse(data), clock)
    [] data.form = "object" -> validateObject(data.body, clock)
    [] data.form \in {"null", "none"} -> Invalid(ErrTypeError)
    [] OTHER -> Invalid(ErrFormat)


(* What a process* method has done when it reaches its first await: it has *)
(* thrown, or it has sent one fetch request downstream.                    *)
NoRequest == [url |-> "", path |-> Undefined, qrData |-> <<>>, body |-> <<>>]
Throw(msg) == [throws |-> TRUE, error |-> msg, request |-> NoRequest]
Fetch(request) == [throws |-> FALSE, error |-> "", request |-> request]

(* Mutant: the owner of the code is not compared with the current user. *)
processEmployeeCheckin_NoOwnerCheck(qrData, currentUserId, clock) ==
  LET validation == validateQRData(qrData, clock)
      data == validation.data
  IN IF ~validation.isValid THEN Throw(validation.error)
     ELSE IF Get(data, "type") # Str("employee_checkin") THEN Throw(ErrCheckinType)
     ELSE Fetch([url |-> "/api/attendance/checkin", path |-> Undefined, qrData |-> data,
                 body |-> << Prop("timestamp", Num(clock)), Prop("method", Str("qr_code")) >>])

processEmployeeCheckin(qrData, currentUserId, clock) ==
  LET validation == validateQRData(qrData, clock)
      data == validation.data
  IN IF ~validation.isValid THEN Throw(validation.error)
     ELSE IF Get(data, "type") # Str("employee_checkin") THEN Throw(ErrCheckinType)
     ELSE IF Get(data, "employeeId") # Str(currentUserId) THEN Throw(ErrOtherEmployee)
     ELSE Fetch([url |-> "/api/attendance/checkin", path |-> Undefined, qrData |-> data,
                 body |-> << Prop("timestamp", Num(clock)), Prop("method", Str("qr_code")) >>])

(* Mutant: the request carries the location id in place of the user id. *)
processLocationCheckin_NoUser(qrData, userId, clock) ==
  LET validation == validateQRData(qrData, clock)
      data == validation.data
  IN IF ~validation.isValid THEN Throw(validation.error)
     ELSE IF Get(data, "type") # Str("location_checkin") THEN Throw(ErrLocationType)
     ELSE Fetch([url |-> "/api/attendance/location-checkin", path |-> Undefined, qrData |-> <<>>,
                 body |-> JSONStringify(<< Prop("locationId", Get(data, "locationId")),
                                           Prop("userId", Get(data, "locationId")),
                                           Prop("timestamp", Num(clock)) >>).body])

processLocationCheckin(qrData, userId, clock) ==
  LET validation == validateQRData(qrData, clock)
      data == validation.data
  IN IF ~validation.isValid THEN Throw(validation.error)
     ELSE IF Get(data, "type") # Str("location_checkin") THEN Throw(ErrLocationType)
     ELSE Fetch([url |-> "/api/attendance/location-checkin", path |-> Undefined, qrData |-> <<>>,
                 body |-> JSONStringify(<< Prop("locationId", Get(data, "locationId")),
                                           Prop("userId", Str(userId)),
                                           Prop("timestamp", Num(clock)) >>).body])

(* Mutant: the type of the payload is not compared. *)
processDocumentAccess_NoTypeCheck(qrData, userId, clock) ==
  LET validation == validateQRData(qrData, clock)
      data == validation.data
  IN IF ~validation.isValid THEN Throw(validation.error)
     ELSE Fetch([url |-> "/api/documents/:id/access", path |-> Get(data, "documentId"), qrData |-> <<>>,
                 body |-> JSONStringify(<< Prop("accessLevel", Get(data, "accessLevel")),
                                           Prop("userId", Str(userId)) >>).body])

processDocumentAccess(qrData, userId, clock) ==
  LET validation == validateQRData(qrData, clock)
      data == validation.data
  IN IF ~validation.isValid THEN Throw(validation.error)
     ELSE IF Get(data, "type") # Str("document_access") THEN Throw(ErrDocumentType)
     ELSE Fetch([url |-> "/api/documents/:id/access", path |-> Get(data, "documentId"), qrData |-> <<>>,
                 body |-> JSONStringify(<< Prop("accessLevel", Get(data, "accessLevel")),
                                           Prop("userId", Str(userId)) >>).body])

(* The message thrown when the downstream response is not ok: the message *)
(* of the response body, or the method's own when the body has none.       *)
(* UpstreamMessages: a body without a message, a body with one.            *)
UpstreamMessages == {"", "Already checked in today"}

FailureMessage(url, message) ==
  IF message # "" THEN message
  ELSE CASE url = "/api/attendance/checkin" -> ErrCheckinFailed
         [] url = "/api/attendance/location-checkin" -> ErrLocationFailed
         [] OTHER -> ErrDocumentFailed

(**************************** processQRHandler *****************************)
(* The handler from its entry to its first await or its early response.   *)
(* respond: the response is sent (status, error); otherwise request is in  *)
(* flight.                                                                 *)
Respond(status, msg) == [respond |-> TRUE, status |-> status, error |-> msg, request |-> NoRequest]
Await(request) == [respond |-> FALSE, status |-> 0, error |-> "", request |-> request]

(* Mutant: the catch answers 409 for a code of another employee. *)
Dispatch_Conflict(outcome) ==
  IF outcome.throws
    THEN Respond(IF outcome.error = ErrOtherEmployee THEN 409 ELSE 400, outcome.error)
    ELSE Await(outcome.request)

(* Mutant: the catch answers with one message for every error. *)
Dispatch_OneMessage(outcome) ==
  IF outcome.throws THEN Respond(400, ErrFormat) ELSE Await(outcome.request)

(* What the handler does with a process* call: the catch answers 400 with  *)
(* the message thrown, otherwise the call is awaited.                      *)
Dispatch(outcome) ==
  IF outcome.throws THEN Respond(400, outcome.error) ELSE Await(outcome.request)

(* Mutant: the switch has no default, an unlisted type goes to check-in. *)
processQRHandler_NoDefault(method, qrData, userId, clock) ==
  IF method # "POST" THEN Respond(405, ErrMethod)
  ELSE LET validation == validateQRData(qrData, clock)
           data == validation.data
           type == Get(data, "type")
       IN IF ~validation.isValid THEN Respond(400, validation.error)
          ELSE CASE type = Str("location_checkin") ->
                      Dispatch(processLocationCheckin(Obj(data), userId, clock))
                 [] type = Str("document_access") ->
                      Dispatch(processDocumentAccess(Obj(data), userId, clock))
                 [] OTHER ->
                      Dispatch(processEmployeeCheckin(Obj(data), userId, clock))

processQRHandler(method, qrData, userId, clock) ==
  IF method # "POST" THEN Respond(405, ErrMethod)
  ELSE LET validation == validateQRData(qrData, clock)
           data == validation.data
           type == Get(data, "type")
       IN IF ~validation.isValid THEN Respond(400, validation.error)
          ELSE CASE type = Str("employee_checkin") ->
                      Dispatch(processEmployeeCheckin(Obj(data), userId, clock))
                 [] type = Str("location_checkin") ->
                      Dispatch(processLocationCheckin(Obj(data), userId, clock))
                 [] type = Str("document_access") ->
                      Dispatch(processDocumentAccess(Obj(data), userId, clock))
                 [] OTHER -> Respond(400, ErrUnsupported)

(*************************** secureQRProcessing ****************************)
(* sha256 of JSON.stringify(qrData): the digest stands for its preimage.   *)
qrHashOf(qrData) ==
  HexDigest("", <<Prop(qrData.form, Undefined)>> \o
                (IF qrData.form = "object" THEN JSONStringify(qrData.body).body ELSE qrData.body))


(******************************** state ************************************)
(* Date.now() is read once in each generator call of the actions below;    *)
(* GenerateRequest reads it twice.                                         *)
(* now: Date.now().  qr: the QR image last generated; given: the type and  *)
(* subject id its generator was called with.  req: the two POST   *)
(* /qr/process requests; pc is idle, fetch (awaiting the downstream        *)
(* response) or done; prior records whether, when the request arrived, an  *)
(* earlier request with the same qrData had already been answered 200.     *)
(* processedQRs, timers: the Set of secureQRProcessing and its pending     *)
(* setTimeout callbacks.  The model follows one QR code from its           *)
(* generation on: the requests that carry a payload carry the same qrData. *)
(* secureQRGeneration.rateLimitQRGeneration: a Map from user id to the     *)
(* array of request times; a user without an entry reads as [].            *)
EmptyMap == [u \in Users |-> <<>>]

ErrRateLimit == "Rate limit exceeded"
ErrNoThis == "Cannot read properties of undefined (reading 'get')"

(* Mutant: a request exactly one window old still counts. *)
recentRequests_Inclusive(userRequests, clock) ==
  SelectSeq(userRequests, LAMBDA time : clock - time <= WINDOW_MS)

recentRequests(userRequests, clock) ==
  SelectSeq(userRequests, LAMBDA time : clock - time < WINDOW_MS)

(* Mutant: the time of a refused request is recorded too. *)
checkRateLimit_RecordsRefused(map, userId, clock) ==
  LET recent == recentRequests(map[userId], clock)
  IN [error |-> IF Len(recent) >= RATE_LIMIT THEN ErrRateLimit ELSE "",
      map |-> [map EXCEPT ![userId] = Append(recent, clock)]]

(* checkRateLimit with `this` the helper object: the error thrown ("" when *)
(* it returns) and the Map afterwards.                                     *)
checkRateLimit(map, userId, clock) ==
  LET recent == recentRequests(map[userId], clock)
  IN IF Len(recent) >= RATE_LIMIT
       THEN [error |-> ErrRateLimit, map |-> map]
     ELSE [error |-> "", map |-> [map EXCEPT ![userId] = Append(recent, clock)]]

(* The last call of checkRateLimit, the number of calls so far, what `this` *)
(* denotes inside the arrow function, and the admitted times of each user. *)
NoRateCall ==
  [calls |-> 0, this |-> "unset", user |-> "", at |-> 0, error |-> "",
   admitted |-> EmptyMap]

(************************* middleware/auth.js ******************************)
Roles == {"admin", "manager", "employee"}
(* requiredRole: "" stands for null, the default. *)
RequiredRoles == {""} \cup Roles
(* What awaiting getToken({ req }) gives: a token, null, or an exception. *)
GetTokenOutcomes == {"token", "null", "throws"}
(* What awaiting the profile query gives: { data: profile }, { error },    *)
(* neither (data null without error), or an exception.                     *)
QueryOutcomes == {"found", "error", "empty", "throws"}
(* The wrapped handler answers by itself, or throws before returning. *)
HandlerOutcomes == {"responds", "throws"}

AuthResponse(status, error, invoked) ==
  [status |-> status, error |-> error, invoked |-> invoked]

(* Mutant: the role is not compared. *)
withAuth_NoRoleCheck(getToken, query, role, requiredRole, handler) ==
  IF getToken = "throws" THEN AuthResponse(500, "Authentication error", FALSE)
  ELSE IF getToken = "null" THEN AuthResponse(401, "Unauthorized", FALSE)
  ELSE IF query = "throws" THEN AuthResponse(500, "Authentication error", FALSE)
  ELSE IF query \in {"error", "empty"} THEN AuthResponse(401, "User profile not found", FALSE)
  ELSE IF handler = "throws" THEN AuthResponse(500, "Authentication error", TRUE)
  ELSE AuthResponse(200, "", TRUE)

(* The function withAuth(handler, requiredRole) returns, run on one        *)
(* request: the response and whether handler was called.  A handler that   *)
(* responds is given status 200.                                           *)
withAuth(getToken, query, role, requiredRole, handler) ==
  IF getToken = "throws" THEN AuthResponse(500, "Authentication error", FALSE)
  ELSE IF getToken = "null" THEN AuthResponse(401, "Unauthorized", FALSE)
  ELSE IF query = "throws" THEN AuthResponse(500, "Authentication error", FALSE)
  ELSE IF query \in {"error", "empty"} THEN AuthResponse(401, "User profile not found", FALSE)
  ELSE IF requiredRole # "" /\ role # requiredRole /\ role # "admin"
    THEN AuthResponse(403, "Insufficient permissions", FALSE)
  ELSE IF handler = "throws" THEN AuthResponse(500, "Authentication error", TRUE)
  ELSE AuthResponse(200, "", TRUE)

NoAuthRequest ==
  [pc |-> "idle", getToken |-> "", query |-> "", role |-> "", requiredRole |-> "",
   handler |-> "", response |-> AuthResponse(0, "", FALSE)]

(************************ supabase/schema-fixed.sql ************************)
(* profiles: the registered users (auth.uid() is one of them), each with   *)
(* the role and the department of its row; "" is NULL.  handle_new_user    *)
(* creates the row with the column defaults.                               *)
Accounts == {"emp-1", "emp-2"}
Departments == {"", "Engineering"}
NewProfile == [role |-> "employee", department |-> ""]
ProfileRows == [role : Roles, department : Departments]

(* leave_requests: rows by id, with the columns the policies read and one  *)
(* column more (reason) that an update may change.                         *)
RequestIds == 1..MaxRequests
LeaveStatuses == {"pending", "approved", "rejected", "cancelled"}
NoRow == [employee_id |-> "", status |-> "", reason |-> ""]
LeaveRows == [employee_id : Accounts, status : LeaveStatuses, reason : {"", "edited"}]
NoLeaveOp == [op |-> "", uid |-> "", id |-> 0]

(* "Users can update own profile": USING (auth.uid() = id). *)
ProfileUpdateUsing(uid, id) == uid = id

(* The EXISTS of "Managers can view and approve department leave requests"; *)
(* a NULL department equals nothing.                                       *)
ManagesEmployee(uid, employee_id) ==
  /\ employee_id \in Accounts
  /\ profiles[uid].role \in {"manager", "admin"}
  /\ \/ profiles[uid].role = "admin"
     \/ /\ profiles[uid].department # ""
        /\ profiles[uid].department = profiles[employee_id].department

(* Mutant: the owner's update policy does not read the status. *)
OwnPendingUsing_AnyStatus(uid, row) == row.employee_id = uid

(* "Employees can update own pending leave requests". *)
OwnPendingUsing(uid, row) == row.employee_id = uid /\ row.status = "pending"

(* The policies of one command are permissive: a row passes when one of    *)
(* them admits it.  A policy without WITH CHECK checks the new row with    *)
(* its USING expression; FOR ALL applies to every command.                 *)
LeaveInsertCheck(uid, row) ==
  row.employee_id = uid \/ ManagesEmployee(uid, row.employee_id)
LeaveUpdateUsing(uid, row) ==
  OwnPendingUsing(uid, row) \/ ManagesEmployee(uid, row.employee_id)
LeaveUpdateCheck(uid, row) ==
  OwnPendingUsing(uid, row) \/ ManagesEmployee(uid, row.employee_id)
LeaveDeleteUsing(uid, row) == ManagesEmployee(uid, row.employee_id)

(* attendance: the set of its rows, with the columns of the UNIQUE         *)
(* constraint and check_in; "" is NULL (or a column left out).             *)
Dates == {"2024-01-15", "2024-01-16"}
CheckIns == {"08:00", "09:00"}
AttendanceData == [employee_id : Accounts, date : Dates \cup {""}, check_in : CheckIns]
NoAttendanceOp == [uid |-> "", row |-> [employee_id |-> "", date |-> "", check_in |-> ""],
                   data |-> FALSE, error |-> ""]

ErrRowSecurity == "new row violates row-level security policy for table \"attendance\""
ErrNotNull == "null value in column \"date\" violates not-null constraint"
ErrUnique == "duplicate key value violates unique constraint"

(* "Employees can insert own attendance": WITH CHECK (employee_id = auth.uid()). *)
AttendanceInsertCheck(uid, row) == row.employee_id = uid

SameDay(r1, r2) == r1.employee_id = r2.employee_id /\ r1.date = r2.date

(* Mutant: the table has no UNIQUE(employee_id, date). *)
createAttendanceRecord_NoUnique(table, uid, attendanceData) ==
  IF ~AttendanceInsertCheck(uid, attendanceData)
    THEN [table |-> table, data |-> FALSE, error |-> ErrRowSecurity]
  ELSE IF attendanceData.date = ""
    THEN [table |-> table, data |-> FALSE, error |-> ErrNotNull]
  ELSE [table |-> table \cup {attendanceData}, data |-> TRUE, error |-> ""]

(* createAttendanceRecord run by the signed-in user uid: one INSERT, then  *)
(* { data, error }.  The server checks the policy, then the column         *)
(* constraints, then the unique index; a failed INSERT stores nothing.     *)
createAttendanceRecord(table, uid, attendanceData) ==
  IF ~AttendanceInsertCheck(uid, attendanceData)
    THEN [table |-> table, data |-> FALSE, error |-> ErrRowSecurity]
  ELSE IF attendanceData.date = ""
    THEN [table |-> table, data |-> FALSE, error |-> ErrNotNull]
  ELSE IF \E r \in table : SameDay(r, attendanceData)
    THEN [table |-> table, data |-> FALSE, error |-> ErrUnique]
  ELSE [table |-> table \cup {attendanceData}, data |-> TRUE, error |-> ""]

(****************************** lib/utils.ts *******************************)
(* The delays passed to debounce and throttle, and the arguments of the    *)
(* calls.                                                                  *)
DELAY_MS == 100
Delays == {0, DELAY_MS}
Args == {"a", "b"}
NoTimeout == [due |-> -1, args |-> ""]

(* debounce(func, wait) not yet called; afterwards: wait, the pending      *)
(* timeout, the number and the last of the calls of the returned function, *)
(* and the invocations of func (clock value, arguments, number of calls    *)
(* made before it).                                                        *)
NoDebounce ==
  [wait |-> -1, timeout |-> NoTimeout, calls |-> 0,
   last |-> [at |-> 0, args |-> ""], invoked |-> <<>>]

(* Mutant: the pending timeout is left armed, the new one is not set. *)
debounced_NoClear(d, args, clock) ==
  [d EXCEPT !.timeout = IF d.timeout = NoTimeout
                          THEN [due |-> clock + d.wait, args |-> args]
                        ELSE d.timeout,
            !.calls = d.calls + 1,
            !.last = [at |-> clock, args |-> args]]

(* The function debounce returns: clearTimeout(timeout), then              *)
(* timeout = setTimeout(() => func(...args), wait).                        *)
debounced(d, args, clock) ==
  [d EXCEPT !.timeout = [due |-> clock + d.wait, args |-> args],
            !.calls = d.calls + 1,
            !.last = [at |-> clock, args |-> args]]

(* throttle(func, limit) not yet called; afterwards: limit, inThrottle     *)
(* (undefined at first, read as false), the due time of the pending        *)
(* timeout (-1: none), the number and the last of the calls of the         *)
(* returned function, and the invocations of func.  func returns normally. *)
NoThrottle ==
  [limit |-> -1, inThrottle |-> FALSE, due |-> -1, calls |-> 0,
   last |-> [at |-> 0, args |-> ""], invoked |-> <<>>]

(* Mutant: inThrottle is not set after the invocation. *)
throttled_FlagNotSet(t, args, clock) ==
  [t EXCEPT !.invoked = Append(@, [at |-> clock, args |-> args]),
            !.due = clock + t.limit,
            !.calls = t.calls + 1,
            !.last = [at |-> clock, args |-> args]]

(* The function throttle returns. *)
throttled(t, args, clock) ==
  IF ~t.inThrottle
    THEN [t EXCEPT !.invoked = Append(@, [at |-> clock, args |-> args]),
                   !.inThrottle = TRUE,
                   !.due = clock + t.limit,
                   !.calls = t.calls + 1,
                   !.last = [at |-> clock, args |-> args]]
  ELSE [t EXCEPT !.calls = t.calls + 1,
                 !.last = [at |-> clock, args |-> args]]

IdleRequest ==
  [pc |-> "idle", raw |-> NoData, user |-> "", request |-> NoRequest,
   status |-> 0, error |-> "", prior |-> FALSE]

NoCall ==
  [op |-> "", raw |-> NoData, user |-> "", at |-> 0,
   throws |-> FALSE, error |-> "", request |-> NoRequest]

NoResponse ==
  [method |-> "", type |-> Undefined, data |-> NoData, at |-> 0, later |-> 0,
   status |-> 0, error |-> "", qrCode |-> NoData, expiresAt |-> Undefined]

Init ==
  /\ now = T0
  /\ ticks = 0
  /\ qr = NoData
  /\ given = [type |-> "", subject |-> Undefined]
  /\ req = [r \in Requests |-> IdleRequest]
  /\ processedQRs = {}
  /\ timers = {}
  /\ gen = NoResponse
  /\ call = NoCall
  /\ sig = NoSignature
  /\ rateLimitQRGeneration = EmptyMap
  /\ rate = NoRateCall
  /\ auth = NoAuthRequest
  /\ profiles = [u \in Accounts |-> NewProfile]
  /\ leave_requests = [id \in RequestIds |-> NoRow]
  /\ leaveOp = NoLeaveOp
  /\ attendance = {}
  /\ attendanceOp = NoAttendanceOp
  /\ deb = NoDebounce
  /\ thr = NoThrottle

(* Date.now() advances. *)
Tick(d) ==
  /\ ticks < MaxTicks
  /\ now' = now + d
  /\ ticks' = ticks + 1
  /\ UNCHANGED <<qr, given, req, processedQRs, timers, gen, call, libVars>>

(* The expiresAt a caller may pass to generateEmployeeQR: none, a time to   *)
(* come, a time already past.                                              *)
ExpiresArgs == {Null, Num(now + 1), Num(T0 - 1)}
AccessArgs == {Undefined, Str("write")}

GenerateEmployee(id, expiresAt) ==
  /\ qr = NoData
  /\ qr' = generateEmployeeQR(Str(id), expiresAt, now, now)
  /\ given' = [type |-> "employee_checkin", subject |-> Str(id)]
  /\ UNCHANGED <<now, ticks, req, processedQRs, timers, gen, call, libVars>>

GenerateLocation(id) ==
  /\ qr = NoData
  /\ qr' = generateLocationQR(Str(id), Str("Main Office"), now)
  /\ given' = [type |-> "location_checkin", subject |-> Str(id)]
  /\ UNCHANGED <<now, ticks, req, processedQRs, timers, gen, call, libVars>>

GenerateDocument(id, accessLevel) ==
  /\ qr = NoData
  /\ qr' = generateDocumentQR(Str(id), accessLevel, now, now)
  /\ given' = [type |-> "document_access", subject |-> Str(id)]
  /\ UNCHANGED <<now, ticks, req, processedQRs, timers, gen, call, libVars>>

(* The payload of the current code is signed and rendered again. *)
SignQR ==
  /\ qr # NoData
  /\ ~HasOwnProperty(JSONParse(Scan(qr)), "signature")
  /\ qr' = generateDataURL(JSONStringify(signQRData(JSONParse(Scan(qr)), SecretKey)))
  /\ UNCHANGED <<now, ticks, given, req, processedQRs, timers, gen, call, libVars>>

(* What a client can put in the qrData of a request: the scanned code, the  *)
(* same as an object, the code with its subject, its type or its expiresAt *)
(* altered, the code without its timestamp or without its signature, and   *)
(* values that are no payload at all.                                      *)
SubjectKeyOf(type) ==
  CASE type = "employee_checkin" -> "employeeId"
    [] type = "location_checkin" -> "locationId"
    [] OTHER -> "documentId"

SubjectKey(obj) == SubjectKeyOf(Get(obj, "type").s)

OtherSubject(v) == IF v = Str("emp-1") THEN Str("emp-2") ELSE Str("emp-1")
SubjectAltered(obj) == Put(obj, SubjectKey(obj), OtherSubject(Get(obj, SubjectKey(obj))))
TypeAltered(obj) == Put(obj, "type", Str("admin_access"))

ClientInputs ==
  {Garbage, NullData, NumberData} \cup
  (IF qr = NoData THEN {}
   ELSE LET obj == JSONParse(Scan(qr))
        IN { Scan(qr),
             Obj(obj),
             Obj(SubjectAltered(obj)),
             Obj(TypeAltered(obj)),
             Obj(Put(obj, "expiresAt", Num(0))),
             Obj(Without(obj, "timestamp")),
             Obj(Without(obj, "signature")) })

(* A request arrives and runs to its response or to its first await. *)
Begin(r, method, qrData, userId) ==
  /\ req[r].pc = "idle"
  /\ \A o \in Requests : req[o].raw \in {NoData, qrData}
  /\ LET h == processQRHandler(method, qrData, userId, now)
     IN req' = [req EXCEPT ![r] =
                  [pc |-> IF h.respond THEN "done" ELSE "fetch",
                   raw |-> qrData,
                   user |-> userId,
                   request |-> h.request,
                   status |-> h.status,
                   error |-> h.error,
                   prior |-> \E o \in Requests : /\ req[o].status = 200
                                                 /\ req[o].raw = qrData]]
  /\ UNCHANGED <<now, ticks, qr, given, processedQRs, timers, gen, call, libVars>>

(* The downstream response arrives: ok, the result is sent with 200; not   *)
(* ok, the process* method throws and the catch answers 400.               *)
FetchRespond(r, ok, message) ==
  /\ req[r].pc = "fetch"
  /\ req' = [req EXCEPT ![r].pc = "done",
                        ![r].status = IF ok THEN 200 ELSE 400,
                        ![r].error = IF ok THEN ""
                                     ELSE FailureMessage(req[r].request.url, message)]
  /\ UNCHANGED <<now, ticks, qr, given, processedQRs, timers, gen, call, libVars>>

(* secureQRProcessing.checkReplayAttack: throws when the hash is in the    *)
(* set, otherwise adds it and arms the timer that deletes it.  call keeps  *)
(* the argument, the clock and whether it threw.                           *)
CheckReplayAttack(qrData) ==
  LET qrHash == qrHashOf(qrData)
      called == [op |-> "checkReplayAttack", raw |-> qrData, user |-> "", at |-> now,
                 throws |-> FALSE, error |-> "", request |-> NoRequest]
  IN IF qrHash \in processedQRs
       THEN /\ call' = [called EXCEPT !.throws = TRUE, !.error = ErrReplay]
            /\ UNCHANGED <<now, ticks, qr, given, req, processedQRs, timers, gen, libVars>>
       ELSE /\ Cardinality(processedQRs) < MaxRecords
            /\ processedQRs' = processedQRs \cup {qrHash}
            /\ timers' = timers \cup {[hash |-> qrHash, due |-> now + RETENTION_MS]}
            /\ call' = called
            /\ UNCHANGED <<now, ticks, qr, given, req, gen, libVars>>

(* Mutant: the callback runs without waiting for its delay. *)
TimerFire_Early(t) ==
  /\ t \in timers
  /\ processedQRs' = processedQRs \ {t.hash}
  /\ timers' = timers \ {t}
  /\ UNCHANGED <<now, ticks, qr, given, req, gen, call, libVars>>

(* A setTimeout callback runs, no earlier than its delay. *)
TimerFire(t) ==
  /\ t \in timers
  /\ now >= t.due
  /\ processedQRs' = processedQRs \ {t.hash}
  /\ timers' = timers \ {t}
  /\ UNCHANGED <<now, ticks, qr, given, req, gen, call, libVars>>

(* A caller other than the handler calls one method of QRCodeProcessor, as *)
(* the scanner component does; or the handler is entered.  call keeps the  *)
(* last call: the method, its arguments, the clock, and what it had done   *)
(* when it reached its first await.  One call is followed in a run.        *)
Operations == {"processEmployeeCheckin", "processLocationCheckin",
               "processDocumentAccess", "processQRHandler"}

Outcome(op, qrData, userId, clock) ==
  CASE op = "processEmployeeCheckin" -> processEmployeeCheckin(qrData, userId, clock)
    [] op = "processLocationCheckin" -> processLocationCheckin(qrData, userId, clock)
    [] op = "processDocumentAccess" -> processDocumentAccess(qrData, userId, clock)
    [] OTHER -> LET h == processQRHandler("POST", qrData, userId, clock)
                IN [throws |-> h.respond, error |-> h.error, request |-> h.request]

DirectCall(op, qrData, userId) ==
  /\ call = NoCall
  /\ LET o == Outcome(op, qrData, userId, now)
     IN call' = [op |-> op, raw |-> qrData, user |-> userId, at |-> now,
                 throws |-> o.throws, error |-> o.error, request |-> o.request]
  /\ UNCHANGED <<now, ticks, qr, given, req, processedQRs, timers, gen, libVars>>

(* A POST /api/qr/generate request is answered.  Between the two reads of  *)
(* Date.now() in a generator the clock stands still or advances.  gen      *)
(* keeps the request, the two clock values and the response.               *)
GenTypes == {Str("employee_checkin"), Str("location_checkin"), Str("document_access"),
             Str("admin_access"), Undefined}
GenSubjects == {Str("emp-1"), Str(""), Undefined}
GenExpires == {Undefined, Num(now + 1), Num(T0 - 1)}
Elapsed == {0, 1}

GenData(type) ==
  {NoData} \cup
  { Obj(JSONParse(JSONStringify(<< Prop(SubjectKeyOf(type.s), subject),
                                   Prop("expiresAt", e) >>))) :
      subject \in GenSubjects, e \in GenExpires }

GenerateRequest(method, type, data, d) ==
  /\ d > 0 => ticks < MaxTicks
  /\ now' = now + d
  /\ ticks' = IF d > 0 THEN ticks + 1 ELSE ticks
  /\ LET res == generateQRHandler(method, type, data, now, now + d)
     IN gen' = [method |-> method, type |-> type, data |-> data, at |-> now, later |-> now + d,
                status |-> res.status, error |-> res.error, qrCode |-> res.qrCode,
                expiresAt |-> res.expiresAt]
  /\ UNCHANGED <<qr, given, req, processedQRs, timers, call, libVars>>

Next ==
  \/ \E d \in Steps : Tick(d)
  \/ \E id \in LocationIds : GenerateLocation(id)
  \/ \E id \in EmployeeIds, e \in ExpiresArgs : GenerateEmployee(id, e)
  \/ \E id \in DocumentIds, a \in AccessArgs : GenerateDocument(id, a)
  \/ SignQR
  \/ \E r \in Requests, q \in ClientInputs, u \in Users : Begin(r, "POST", q, u)
  \/ \E r \in Requests, u \in Users : Begin(r, "GET", NoData, u)
  \/ \E r \in Requests, ok \in BOOLEAN, m \in UpstreamMessages : FetchRespond(r, ok, m)

Spec == Init /\ [][Next]_vars

(* The helper secureQRProcessing on its own: no handler calls it.  The     *)
(* clock also advances by the delay of the timer.  ReplayInputs: a         *)
(* location code generated at T0 as scanned, the same as an object, and    *)
(* with its subject altered; an employee code generated at T0 with the     *)
(* default expiry.                                                         *)
ReplaySteps == Steps \cup {RETENTION_MS}

ReplayInputs ==
  LET image == generateLocationQR(Str("loc-9"), Str("Main Office"), T0)
  IN {Scan(image), Obj(JSONParse(Scan(image))), Obj(SubjectAltered(JSONParse(Scan(image)))),
      Scan(generateEmployeeQR(Str("emp-1"), Null, T0, T0))}

NextReplay ==
  \/ \E d \in ReplaySteps : Tick(d)
  \/ \E q \in ReplayInputs : CheckReplayAttack(q)
  \/ \E t \in timers : TimerFire(t)

SpecReplay == Init /\ [][NextReplay]_vars

(* The event loop runs a setTimeout callback that is due. *)
SpecReplayFair == SpecReplay /\ WF_vars(\E t \in timers : TimerFire(t))

(* The methods of QRCodeProcessor called one at a time with any payload. *)
(* validateQRData is called on its own, with any value: it returns its     *)
(* result, the catch turning every exception into { isValid: false }.      *)
ValidateCall(data) ==
  /\ call = NoCall
  /\ LET v == validateQRData(data, now)
     IN call' = [op |-> "validateQRData", raw |-> data, user |-> "", at |-> now,
                 throws |-> FALSE, error |-> v.error, request |-> NoRequest]
  /\ UNCHANGED <<now, ticks, qr, given, req, processedQRs, timers, gen, libVars>>

NextDirect ==
  \/ \E d \in Steps : Tick(d)
  \/ \E id \in LocationIds : GenerateLocation(id)
  \/ \E id \in EmployeeIds, e \in ExpiresArgs : GenerateEmployee(id, e)
  \/ \E id \in DocumentIds, a \in AccessArgs : GenerateDocument(id, a)
  \/ \E op \in Operations, q \in ClientInputs, u \in Users : DirectCall(op, q, u)
  \/ \E q \in ClientInputs \cup {NoData} : ValidateCall(q)

SpecDirect == Init /\ [][NextDirect]_vars

(* The generate endpoint on its own. *)
NextGenerate ==
  \/ \E d \in Steps : Tick(d)
  \/ \E type \in GenTypes, d \in Elapsed :
        \E data \in GenData(type) : GenerateRequest("POST", type, data, d)
  \/ GenerateRequest("GET", Undefined, NoData, 0)

SpecGenerate == Init /\ [][NextGenerate]_vars


(************************ signQRData / verifyQRData ************************)
(* A payload fresh from a generator is signed; the signed object is then   *)
(* submitted once to verifyQRData with its properties in any order.        *)
SignablePayloads ==
  { JSONParse(Scan(generateEmployeeQR(Str("emp-1"), Null, now, now))),
    JSONParse(Scan(generateLocationQR(Str("loc-9"), Str("Main Office"), now))),
    JSONParse(Scan(generateDocumentQR(Str("doc-1"), Undefined, now, now))) }

SignData(data, secretKey) ==
  /\ sig' = [NoSignature EXCEPT !.signed = signQRData(data, secretKey), !.key = secretKey]
  /\ UNCHANGED exceptSig

VerifyData(f, secretKey) ==
  /\ sig.signed # <<>>
  /\ sig.submitted = <<>>
  /\ LET data == Reordered(sig.signed, f)
     IN sig' = [sig EXCEPT !.submitted = data,
                           !.verifyKey = secretKey,
                           !.verified = verifyQRData(data, secretKey)]
  /\ UNCHANGED exceptSig

NextSign ==
  \/ \E data \in SignablePayloads, k \in SigningKeys : SignData(data, k)
  \/ \E f \in Permutations(DOMAIN sig.signed), k \in SigningKeys : VerifyData(f, k)

SpecSign == Init /\ [][NextSign]_vars


(***************************** checkRateLimit ******************************)
(* checkRateLimit is an arrow function in an object literal: its `this` is *)
(* the `this` of the enclosing scope, not secureQRGeneration.  Both        *)
(* readings are kept, fixed at the first call: "helper" (the helper object *)
(* is meant, and the Map is found) and "scope" (this.rateLimitQRGeneration *)
(* is undefined and every call throws a TypeError before the Map is read). *)
RateSteps == {1, WINDOW_MS - 1}

RateTick(d) ==
  /\ ticks < MaxTicks
  /\ now' = now + d
  /\ ticks' = ticks + 1
  /\ UNCHANGED <<qrState, libVars>>

CheckRateLimit(userId, this) ==
  /\ rate.calls < MaxCalls
  /\ rate.this \in {"unset", this}
  /\ LET r == IF this = "helper"
                THEN checkRateLimit(rateLimitQRGeneration, userId, now)
              ELSE [error |-> ErrNoThis, map |-> rateLimitQRGeneration]
     IN /\ rateLimitQRGeneration' = r.map
        /\ rate' = [calls |-> rate.calls + 1, this |-> this, user |-> userId,
                    at |-> now, error |-> r.error,
                    admitted |-> IF r.error = ""
                                   THEN [rate.admitted EXCEPT ![userId] = Append(@, now)]
                                 ELSE rate.admitted]
  /\ UNCHANGED <<now, ticks, exceptRate>>

NextRate ==
  \/ \E d \in RateSteps : RateTick(d)
  \/ \E u \in Users, this \in {"helper", "scope"} : CheckRateLimit(u, this)

SpecRate == Init /\ [][NextRate]_vars


(******************************** withAuth *********************************)
(* One request goes through withAuth(handler, requiredRole). *)
AuthRequest(getToken, query, role, requiredRole, handler) ==
  /\ auth.pc = "idle"
  /\ auth' = [pc |-> "done", getToken |-> getToken, query |-> query, role |-> role,
              requiredRole |-> requiredRole, handler |-> handler,
              response |-> withAuth(getToken, query, role, requiredRole, handler)]
  /\ UNCHANGED exceptAuth

NextAuth ==
  \E t \in GetTokenOutcomes, q \in QueryOutcomes, role \in Roles,
     required \in RequiredRoles, h \in HandlerOutcomes :
       AuthRequest(t, q, role, required, h)

SpecAuth == Init /\ [][NextAuth]_vars


(***************** row-level security of leave_requests ********************)
(* Statements run as the signed-in user uid.  A statement that the         *)
(* policies do not admit changes no row.                                   *)
UpdateProfile(uid, row) ==
  /\ ProfileUpdateUsing(uid, uid)
  /\ profiles' = [profiles EXCEPT ![uid] = row]
  /\ leaveOp' = [op |-> "profile", uid |-> uid, id |-> 0]
  /\ UNCHANGED <<leave_requests, exceptLeave>>

InsertLeave(uid, id, row) ==
  /\ leave_requests[id] = NoRow
  /\ LeaveInsertCheck(uid, row)
  /\ leave_requests' = [leave_requests EXCEPT ![id] = row]
  /\ leaveOp' = [op |-> "insert", uid |-> uid, id |-> id]
  /\ UNCHANGED <<profiles, exceptLeave>>

UpdateLeave(uid, id, row) ==
  /\ leave_requests[id] # NoRow
  /\ LeaveUpdateUsing(uid, leave_requests[id])
  /\ LeaveUpdateCheck(uid, row)
  /\ leave_requests' = [leave_requests EXCEPT ![id] = row]
  /\ leaveOp' = [op |-> "update", uid |-> uid, id |-> id]
  /\ UNCHANGED <<profiles, exceptLeave>>

DeleteLeave(uid, id) ==
  /\ leave_requests[id] # NoRow
  /\ LeaveDeleteUsing(uid, leave_requests[id])
  /\ leave_requests' = [leave_requests EXCEPT ![id] = NoRow]
  /\ leaveOp' = [op |-> "delete", uid |-> uid, id |-> id]
  /\ UNCHANGED <<profiles, exceptLeave>>

NextLeave ==
  \/ \E uid \in Accounts, row \in ProfileRows : UpdateProfile(uid, row)
  \/ \E uid \in Accounts, id \in RequestIds, row \in LeaveRows : InsertLeave(uid, id, row)
  \/ \E uid \in Accounts, id \in RequestIds, row \in LeaveRows : UpdateLeave(uid, id, row)
  \/ \E uid \in Accounts, id \in RequestIds : DeleteLeave(uid, id)

SpecLeave == Init /\ [][NextLeave]_vars


(************************* inserts into attendance *************************)
CreateAttendanceRecord(uid, attendanceData) ==
  /\ LET r == createAttendanceRecord(attendance, uid, attendanceData)
     IN /\ attendance' = r.table
        /\ attendanceOp' = [uid |-> uid, row |-> attendanceData,
                            data |-> r.data, error |-> r.error]
  /\ UNCHANGED exceptAttendance

NextAttendance ==
  \E uid \in Accounts, attendanceData \in AttendanceData :
     CreateAttendanceRecord(uid, attendanceData)

SpecAttendance == Init /\ [][NextAttendance]_vars


(******************************** debounce *********************************)
(* Time passes in steps of a millisecond and of a whole delay.  A timer    *)
(* callback runs at its due time or later, never earlier.                  *)
LibSteps == {1, DELAY_MS}

LibTick(d) ==
  /\ ticks < MaxTicks
  /\ now' = now + d
  /\ ticks' = ticks + 1
  /\ UNCHANGED <<qrState, libVars>>

Debounce(wait) ==
  /\ deb = NoDebounce
  /\ deb' = [deb EXCEPT !.wait = wait]
  /\ UNCHANGED <<now, ticks, exceptDeb>>

DebouncedCall(args) ==
  /\ deb.wait >= 0
  /\ deb.calls < MaxDebounced
  /\ deb' = debounced(deb, args, now)
  /\ UNCHANGED <<now, ticks, exceptDeb>>

(* The callback of the pending timeout runs: func(...args). *)
DebounceFire ==
  /\ deb.timeout # NoTimeout
  /\ now >= deb.timeout.due
  /\ deb' = [deb EXCEPT !.timeout = NoTimeout,
                        !.invoked = Append(@, [at |-> now, args |-> deb.timeout.args,
                                               calls |-> deb.calls])]
  /\ UNCHANGED <<now, ticks, exceptDeb>>

NextDebounce ==
  \/ \E d \in LibSteps : LibTick(d)
  \/ \E wait \in Delays : Debounce(wait)
  \/ \E args \in Args : DebouncedCall(args)
  \/ DebounceFire

SpecDebounce == Init /\ [][NextDebounce]_vars


(******************************** throttle *********************************)
Throttle(limit) ==
  /\ thr = NoThrottle
  /\ thr' = [thr EXCEPT !.limit = limit]
  /\ UNCHANGED <<now, ticks, exceptThr>>

ThrottledCall(args) ==
  /\ thr.limit >= 0
  /\ thr.calls < MaxThrottled
  /\ thr' = throttled(thr, args, now)
  /\ UNCHANGED <<now, ticks, exceptThr>>

(* The callback of the pending timeout runs: inThrottle = false. *)
ThrottleReset ==
  /\ thr.due >= 0
  /\ now >= thr.due
  /\ thr' = [thr EXCEPT !.inThrottle = FALSE, !.due = -1]
  /\ UNCHANGED <<now, ticks, exceptThr>>

NextThrottle ==
  \/ \E d \in LibSteps : LibTick(d)
  \/ \E limit \in Delays : Throttle(limit)
  \/ \E args \in Args : ThrottledCall(args)
  \/ ThrottleReset

SpecThrottle == Init /\ [][NextThrottle]_vars


(******************************* properties ********************************)
IsPayload(q) == q.form \in {"text", "object"}
PayloadOf(q) ==
  IF q.form = "text" THEN JSONParse(q) ELSE IF q.form = "object" THEN q.body ELSE <<>>

KnownTypes == {Str("employee_checkin"), Str("location_checkin"), Str("document_access")}
MalformedErrors == {ErrSyntax, ErrTypeError, ErrFormat}

WellFormed(q) ==
  /\ IsPayload(q)
  /\ HasOwnProperty(PayloadOf(q), "type")
  /\ HasOwnProperty(PayloadOf(q), "timestamp")

(* The payload carries an expiresAt and the clock is past it. *)
PastExpiry(q, clock) ==
  /\ IsPayload(q)
  /\ HasOwnProperty(PayloadOf(q), "expiresAt")
  /\ Get(PayloadOf(q), "expiresAt").t = "number"
  /\ clock > Get(PayloadOf(q), "expiresAt").n

(* The same, for an expiresAt that is not 0. *)
Expired(q, clock) == PastExpiry(q, clock) /\ Get(PayloadOf(q), "expiresAt").n # 0

(* The payload carries a signature that its other fields do not verify. *)
WronglySigned(q) ==
  /\ IsPayload(q)
  /\ HasOwnProperty(PayloadOf(q), "signature")
  /\ ~verifyQRData(PayloadOf(q), SecretKey)

(* The subject or the type of the signed current code was altered. *)
AlteredAfterSigning(q) ==
  /\ qr # NoData
  /\ verifyQRData(JSONParse(Scan(qr)), SecretKey)
  /\ q \in {Obj(SubjectAltered(JSONParse(Scan(qr)))), Obj(TypeAltered(JSONParse(Scan(qr))))}

(* Request r arrives in this step. *)
Arrived(r) == req[r].pc = "idle" /\ req'[r].pc # "idle"
Succeeded(r) == req[r].pc = "done" /\ req[r].status = 200

(* C1: two dispatches of the same qrData that run concurrently (neither    *)
(* arrived after the other had succeeded) never both succeed.              *)
C1_ConcurrentDispatchOnce ==
  \A r1, r2 \in Requests :
    (/\ r1 # r2
     /\ IsPayload(req[r1].raw)
     /\ req[r1].raw = req[r2].raw
     /\ ~req[r1].prior
     /\ ~req[r2].prior)
    => ~(Succeeded(r1) /\ Succeeded(r2))

(* C2: a request that submits qrData already dispatched successfully is    *)
(* rejected as a replay by the validation step and emits no downstream     *)
(* request.                                                                *)
C2_ResubmissionRejected ==
  \A r \in Requests :
    req[r].prior =>
      /\ req[r].pc = "done"
      /\ req[r].error = ErrReplay
      /\ req[r].request = NoRequest

C4_RoundTrip ==
  qr # NoData =>
    LET validation == validateQRData(Scan(qr), now)
    IN ~PastExpiry(Scan(qr), now) =>
         /\ validation.isValid
         /\ Get(validation.data, "type") = Str(given.type)
         /\ Get(validation.data, SubjectKeyOf(given.type)) = given.subject

C4_Witness ==
  /\ ticks > 0
  /\ given.type = "document_access"
  /\ validateQRData(Scan(qr), now).isValid
  /\ \E r \in Requests : req[r].raw = Scan(qr) /\ Succeeded(r)

(* C5: a signed payload whose subject or type was altered afterwards is    *)
(* rejected and never dispatched.                                          *)
C5_AlteredNeverDispatched ==
  \A r \in Requests :
    (req[r].pc # "idle" /\ AlteredAfterSigning(req[r].raw))
    => /\ req[r].pc = "done"
       /\ req[r].status = 400
       /\ req[r].request = NoRequest

(* C6: a valid employee check-in payload presented by another user is      *)
(* answered with the owner-mismatch error, sends nothing downstream and    *)
(* leaves the replay set as it was; an attendance check-in request is sent *)
(* only for the code's own employee.                                       *)
C6_OwnCodeOnly ==
  [][\A r \in Requests :
       /\ (/\ Arrived(r)
           /\ validateQRData(req'[r].raw, now).isValid
           /\ Get(PayloadOf(req'[r].raw), "type") = Str("employee_checkin")
           /\ Get(PayloadOf(req'[r].raw), "employeeId") # Str(req'[r].user))
          => /\ req'[r].pc = "done"
             /\ req'[r].status = 400
             /\ req'[r].error = ErrOtherEmployee
             /\ req'[r].request = NoRequest
             /\ processedQRs' = processedQRs
       /\ req'[r].request.url = "/api/attendance/checkin"
          => Get(req'[r].request.qrData, "employeeId") = Str(req'[r].user)]_vars

C6_Witness ==
  \E r \in Requests : req[r].pc = "done" /\ req[r].error = ErrOtherEmployee

(* C7: a valid location check-in payload is dispatched for every user: the *)
(* request sent carries the user's id and the payload's location id, and   *)
(* the dispatch fails only when the downstream response is not ok.         *)
C7_LocationAnyUser ==
  [][\A r \in Requests :
       /\ (/\ Arrived(r)
           /\ validateQRData(req'[r].raw, now).isValid
           /\ Get(PayloadOf(req'[r].raw), "type") = Str("location_checkin"))
          => /\ req'[r].pc = "fetch"
             /\ req'[r].request.url = "/api/attendance/location-checkin"
             /\ Get(req'[r].request.body, "userId") = Str(req'[r].user)
             /\ Get(req'[r].request.body, "locationId")
                  = Get(PayloadOf(req'[r].raw), "locationId")
       /\ (/\ req[r].pc = "fetch"
           /\ req'[r].pc = "done"
           /\ req[r].request.url = "/api/attendance/location-checkin")
          => \/ req'[r].status = 200
             \/ req'[r].error \in {ErrLocationFailed} \cup UpstreamMessages]_vars

C7_Witness ==
  \E r \in Requests :
    /\ Succeeded(r)
    /\ req[r].request.url = "/api/attendance/location-checkin"
    /\ Get(req[r].request.body, "userId") = Str("emp-2")
    /\ Get(req[r].request.body, "locationId") = Str("loc-9")

(* C8: a hash is in the replay set only once the downstream write for its  *)
(* payload has succeeded, a payload whose downstream call failed is not in *)
(* the set, and the downstream effect of one payload is applied at most    *)
(* once.                                                                   *)
C8_RecordAfterWriteAtMostOnce ==
  /\ \A h \in processedQRs :
       \E r \in Requests : Succeeded(r) /\ qrHashOf(req[r].raw) = h
  /\ \A r1, r2 \in Requests :
       (r1 # r2 /\ IsPayload(req[r1].raw) /\ req[r1].raw = req[r2].raw)
       => ~(Succeeded(r1) /\ Succeeded(r2))

(* C9: validate reports the first failing check in the order parse, shape, *)
(* expiry, signature, replay.                                              *)
AlreadyProcessed(q) ==
  \/ qrHashOf(q) \in processedQRs
  \/ \E r \in Requests : Succeeded(r) /\ req[r].raw = q

C9_FirstFailingCheck ==
  \A q \in ClientInputs :
    LET validation == validateQRData(q, now)
    IN /\ (~WellFormed(q) /\ Expired(q, now))
          => validation.error \in MalformedErrors
       /\ (WellFormed(q) /\ Expired(q, now) /\ WronglySigned(q))
          => validation.error = ErrExpired
       /\ (WellFormed(q) /\ ~Expired(q, now) /\ WronglySigned(q) /\ AlreadyProcessed(q))
          => /\ ~validation.isValid
             /\ validation.error \notin MalformedErrors \cup {ErrExpired, ErrReplay}

DeclaredType(op) ==
  CASE op = "processEmployeeCheckin" -> Str("employee_checkin")
    [] op = "processLocationCheckin" -> Str("location_checkin")
    [] OTHER -> Str("document_access")

EndpointOf(type) ==
  CASE type = Str("employee_checkin") -> "/api/attendance/checkin"
    [] type = Str("location_checkin") -> "/api/attendance/location-checkin"
    [] OTHER -> "/api/documents/:id/access"

TypeErrorOf(op) ==
  CASE op = "processEmployeeCheckin" -> ErrCheckinType
    [] op = "processLocationCheckin" -> ErrLocationType
    [] OTHER -> ErrDocumentType

(* C11: each of processEmployeeCheckin, processLocationCheckin and         *)
(* processDocumentAccess, called with a valid payload of one of the other  *)
(* two types, throws its type error and sends no request; a request sent   *)
(* by any of them goes to the endpoint of its own type with a payload of   *)
(* that type; and a request sent by processQRHandler goes to the endpoint  *)
(* of the payload's type.                                                  *)
C11_OwnTypeOnly ==
  LET type == Get(PayloadOf(call.raw), "type")
  IN /\ (/\ call.op \in Operations \ {"processQRHandler"}
          /\ validateQRData(call.raw, call.at).isValid
          /\ type \in KnownTypes \ {DeclaredType(call.op)})
         => /\ call.throws
            /\ call.error = TypeErrorOf(call.op)
            /\ call.request = NoRequest
     /\ (call.op \in Operations \ {"processQRHandler"} /\ call.request # NoRequest)
         => /\ type = DeclaredType(call.op)
            /\ call.request.url = EndpointOf(DeclaredType(call.op))
     /\ (call.op = "processQRHandler" /\ call.request # NoRequest)
         => /\ type \in KnownTypes
            /\ call.request.url = EndpointOf(type)

C11_Witness ==
  /\ call.op = "processLocationCheckin"
  /\ Get(PayloadOf(call.raw), "type") = Str("employee_checkin")
  /\ validateQRData(call.raw, call.at).isValid
  /\ call.error = ErrLocationType
  /\ call.at > T0

(* The payload in the image of the last generate response, the subject id  *)
(* and the expiresAt its request carried.                                  *)
Generated == gen.qrCode # NoData
GenPayload == JSONParse(Scan(gen.qrCode))
GenArg(k) == IF gen.data.form = "object" THEN Get(gen.data.body, k) ELSE Undefined
GenSubject == GenArg(SubjectKeyOf(gen.type.s))

(* C12: every payload produced by POST /qr/generate that carries an        *)
(* expiresAt has expiresAt >= timestamp, whatever expiresAt the caller     *)
(* supplied.                                                               *)
C12_ExpiryNotBeforeIssue ==
  (Generated /\ HasOwnProperty(GenPayload, "expiresAt"))
    => Get(GenPayload, "expiresAt").n >= Get(GenPayload, "timestamp").n

(* C13 as stated: a payload generated without an expiry argument carries   *)
(* expiresAt = timestamp + 24 hours for an employee or a location code and *)
(* timestamp + 7 days for a document code.                                 *)
C13_ExpiryFromDuration ==
  (Generated /\ ~Truthy(GenArg("expiresAt")))
    => /\ HasOwnProperty(GenPayload, "expiresAt")
       /\ Get(GenPayload, "expiresAt").n
            = Get(GenPayload, "timestamp").n
              + (IF gen.type = Str("document_access") THEN WEEK_MS ELSE DAY_MS)

(* C13 amended: the timestamp is the clock at the first read; an employee  *)
(* code carries the caller's expiresAt when one is given and otherwise the *)
(* clock at the second read plus 24 hours; a document code carries the     *)
(* clock at the second read plus 7 days; a location code carries no        *)
(* expiresAt.                                                              *)
C13_ExpiryAsGenerated ==
  Generated
    => /\ Get(GenPayload, "timestamp") = Num(gen.at)
       /\ gen.at <= gen.later
       /\ gen.type = Str("employee_checkin")
            => Get(GenPayload, "expiresAt")
                 = (IF Truthy(GenArg("expiresAt")) THEN GenArg("expiresAt")
                    ELSE Num(gen.later + DAY_MS))
       /\ gen.type = Str("document_access")
            => Get(GenPayload, "expiresAt") = Num(gen.later + WEEK_MS)
       /\ gen.type = Str("location_checkin")
            => ~HasOwnProperty(GenPayload, "expiresAt")

C13_Witness ==
  /\ Generated
  /\ gen.type = Str("document_access")
  /\ gen.later > gen.at
  /\ Get(GenPayload, "expiresAt") = Num(gen.at + 1 + WEEK_MS)

(* C14: a POST /qr/generate request whose type is not one of the three     *)
(* known types, or whose subject id is empty or missing, is rejected and   *)
(* produces no QR code.                                                    *)
C14_InvalidArgumentRejected ==
  (/\ gen.method = "POST"
   /\ \/ gen.type \notin KnownTypes
      \/ GenSubject \in {Str(""), Undefined})
    => /\ gen.status # 200
       /\ ~Generated

Overdue == \E t \in timers : now >= t.due

Answered(r) == req[r].pc # "done" /\ req'[r].pc = "done"
UpstreamFailed(r) == req[r].pc = "done" /\ req[r].request # NoRequest /\ req[r].status # 200

(* C16 as stated: a rejection for a malformed or an expired payload is     *)
(* answered 400, one for a subject mismatch 409, one for a downstream      *)
(* failure 502.                                                            *)
C16_StatusPerKind ==
  \A r \in Requests :
    (req[r].pc = "done" /\ req[r].error \notin {"", ErrMethod})
      => /\ req[r].error \in MalformedErrors \cup {ErrExpired} => req[r].status = 400
         /\ req[r].error = ErrOtherEmployee => req[r].status = 409
         /\ UpstreamFailed(r) => req[r].status = 502

(* C16 amended: every answer is 200, 400 or 405; 200 goes with no error,   *)
(* 405 with the method error, and every other error, subject mismatch and  *)
(* downstream failure among them, with 400.                                *)
C16_EveryRejection400 ==
  \A r \in Requests :
    req[r].pc = "done"
      => /\ req[r].status \in {200, 400, 405}
         /\ req[r].status = 200 <=> req[r].error = ""
         /\ req[r].status = 405 <=> req[r].error = ErrMethod
         /\ req[r].error = ErrOtherEmployee => req[r].status = 400
         /\ UpstreamFailed(r) => req[r].status = 400

C16_Witness ==
  \E r1, r2 \in Requests :
    /\ req[r1].pc = "done" /\ req[r1].error = ErrOtherEmployee /\ req[r1].status = 400
    /\ UpstreamFailed(r2) /\ req[r2].status = 400

(* The kind of error a message stands for, and the cause for which the     *)
(* handler has to refuse a payload on arrival.                             *)
UpstreamErrors ==
  {ErrCheckinFailed, ErrLocationFailed, ErrDocumentFailed} \cup (UpstreamMessages \ {""})

KindOf(error) ==
  CASE error \in MalformedErrors \cup {ErrUnsupported} -> "MalformedPayload"
    [] error = ErrExpired -> "Expired"
    [] error = ErrOtherEmployee -> "SubjectMismatch"
    [] error \in UpstreamErrors -> "UpstreamFailure"
    [] OTHER -> "none"

CauseOf(q, userId, clock) ==
  IF ~WellFormed(q) THEN "MalformedPayload"
  ELSE IF Expired(q, clock) THEN "Expired"
  ELSE IF Get(PayloadOf(q), "type") \notin KnownTypes THEN "MalformedPayload"
  ELSE IF /\ Get(PayloadOf(q), "type") = Str("employee_checkin")
          /\ Get(PayloadOf(q), "employeeId") # Str(userId) THEN "SubjectMismatch"
  ELSE "none"

C18_UnsignedNeverDispatched ==
  [][\A r \in Requests :
       (/\ Arrived(r)
        /\ req'[r].error # ErrMethod
        /\ qr # NoData
        /\ verifyQRData(JSONParse(Scan(qr)), SecretKey)
        /\ IsPayload(req'[r].raw)
        /\ ~HasOwnProperty(PayloadOf(req'[r].raw), "signature"))
       => /\ \A key \in {SecretKey, "k2"} : ~verifyQRData(PayloadOf(req'[r].raw), key)
          /\ req'[r].pc = "done"
          /\ req'[r].status # 200
          /\ req'[r].request = NoRequest]_vars

(* C19: a payload that has type and timestamp and no expiresAt is valid   *)
(* at every clock value: no method called with it throws the expiry error, *)
(* whatever the time since its timestamp.                                  *)
C19_NoExpiryNeverExpired ==
  (/\ call.op \in Operations
   /\ WellFormed(call.raw)
   /\ ~HasOwnProperty(PayloadOf(call.raw), "expiresAt"))
    => /\ validateQRData(call.raw, call.at).isValid
       /\ \A d \in Steps : validateQRData(call.raw, call.at + d).isValid
       /\ call.error # ErrExpired

C19_Witness ==
  /\ call.op = "processLocationCheckin"
  /\ ~call.throws
  /\ ~HasOwnProperty(PayloadOf(call.raw), "expiresAt")
  /\ call.at >= Get(PayloadOf(call.raw), "timestamp").n + DAY_MS

AdmittedWithin(u, t) ==
  Cardinality({i \in DOMAIN rate.admitted[u] : t - rate.admitted[u][i] < WINDOW_MS})

(* Every admitted request has, itself included, at most RATE_LIMIT        *)
(* admitted requests of its user in the window that ends with it.          *)
RateWindow ==
  \A u \in Users : \A i \in DOMAIN rate.admitted[u] :
    Cardinality({j \in 1..i : rate.admitted[u][i] - rate.admitted[u][j] < WINDOW_MS})
      <= RATE_LIMIT

RateStep ==
  rate'.calls = rate.calls + 1
    => LET u == rate'.user
           recent == AdmittedWithin(u, now)
       IN /\ recent >= RATE_LIMIT
               => (/\ rate'.error = ErrRateLimit
                   /\ rateLimitQRGeneration' = rateLimitQRGeneration)
          /\ rate'.error = ErrRateLimit => recent >= RATE_LIMIT
          /\ \A v \in Users \ {u} :
               /\ rateLimitQRGeneration'[v] = rateLimitQRGeneration[v]
               /\ rate'.admitted[v] = rate.admitted[v]
               /\ AdmittedWithin(v, now)' = AdmittedWithin(v, now)

(* C24: of the requests of one user, at most 10 are admitted within any    *)
(* 60 seconds; a call that follows 10 admitted calls of its user by less   *)
(* than 60 seconds throws 'Rate limit exceeded' and leaves the recorded    *)
(* times as they were; that error is thrown only then, so older requests   *)
(* do not count; a call changes no other user's record or count.           *)
C24_RateLimit == []RateWindow /\ [][RateStep]_vars

C24_Witness ==
  /\ rate.error = ErrRateLimit
  /\ rate.calls = RATE_LIMIT + 1
  /\ Len(rateLimitQRGeneration[rate.user]) = RATE_LIMIT

(* The request carries a token, its subject has a profile, and the role of *)
(* the profile is the required one, if any, or 'admin'.                    *)
RoleSuffices == auth.requiredRole = "" \/ auth.role \in {auth.requiredRole, "admin"}
Authorized == auth.getToken = "token" /\ auth.query = "found" /\ RoleSuffices

(* C25 as stated: the handler is invoked only for an authorized request;   *)
(* any other request is answered without the handler, with 401 (no token   *)
(* or no profile) or 403 (insufficient role).                              *)
C25_Only401Or403 ==
  auth.pc = "done"
    => /\ auth.response.invoked => Authorized
       /\ ~Authorized
            => (/\ ~auth.response.invoked
                /\ auth.response.status \in {401, 403}
                /\ auth.response.status = 403
                     <=> (auth.getToken = "token" /\ auth.query = "found"))

(* C25 amended: the handler is invoked only for an authorized request.     *)
(* Without the handler being invoked the response is 401 when getToken     *)
(* gives no token or the profile query gives an error or no profile, 403   *)
(* when the role does not suffice, and 500 'Authentication error' when     *)
(* getToken or the profile query throws; an authorized request whose       *)
(* lookups do not throw reaches the handler, and a handler that throws     *)
(* before returning is answered with 500 as well.                          *)
C25_HandlerOnlyIfAuthorized ==
  auth.pc = "done"
    => LET r == auth.response
       IN /\ r.invoked <=> Authorized
          /\ ~r.invoked
               => (/\ r.status \in {401, 403, 500}
                   /\ r.status = 500
                        <=> ("throws" \in {auth.getToken,
                                           IF auth.getToken = "token" THEN auth.query ELSE ""})
                   /\ r.status = 403
                        <=> (auth.getToken = "token" /\ auth.query = "found"))
          /\ (r.invoked /\ auth.handler = "throws") => r.status = 500

C25_Witness ==
  /\ auth.pc = "done"
  /\ auth.response.invoked
  /\ auth.requiredRole = "manager"
  /\ auth.role = "admin"

(* C26: when a user whose role is 'employee' changes a row of              *)
(* leave_requests by an update, the row was that user's own and its status *)
(* was 'pending' (and the row as updated is again the user's own, pending):*)
(* a request that is approved, rejected or cancelled is not changed by its *)
(* owner, and no employee changes the request of another.                  *)
C26_EmployeeUpdatesOwnPending ==
  [][ \A id \in RequestIds :
        ( /\ leaveOp'.op = "update"
          /\ leaveOp'.id = id
          /\ leave_requests'[id] # leave_requests[id]
          /\ profiles[leaveOp'.uid].role = "employee" )
        => ( /\ leave_requests[id].employee_id = leaveOp'.uid
             /\ leave_requests[id].status = "pending"
             /\ leave_requests'[id].employee_id = leaveOp'.uid
             /\ leave_requests'[id].status = "pending"
             /\ \A other \in RequestIds \ {id} :
                  leave_requests'[other] = leave_requests[other] ) ]_vars

C26_Witness ==
  /\ leaveOp.op = "update"
  /\ profiles[leaveOp.uid].role = "employee"
  /\ leave_requests[leaveOp.id].employee_id = leaveOp.uid
  /\ leave_requests[leaveOp.id].reason = "edited"
  /\ \E u \in Accounts : profiles[u].role = "manager"

AttendanceUnique ==
  \A r1, r2 \in attendance : SameDay(r1, r2) => r1 = r2

SecondInsertFails ==
  (\E r \in attendance : SameDay(r, attendanceOp'.row))
    => /\ attendanceOp'.error # ""
       /\ ~attendanceOp'.data
       /\ attendance' = attendance

DebounceInvokes == Len(deb'.invoked) = Len(deb.invoked) + 1
DebounceCalled == deb'.calls = deb.calls + 1

(* An invocation comes wait ms or more after the most recent call, with    *)
(* its arguments, and at most once for it.                                 *)
InvokedForLastCall ==
  DebounceInvokes
    => LET i == deb'.invoked[Len(deb'.invoked)]
       IN /\ i.at >= deb.last.at + deb.wait
          /\ i.args = deb.last.args
          /\ i.calls = deb.calls
          /\ \A j \in DOMAIN deb.invoked : deb.invoked[j].calls # deb.calls
          /\ deb'.timeout = NoTimeout

(* A call leaves pending only its own invocation. *)
CallCancelsPending ==
  DebounceCalled
    => /\ deb'.timeout = [due |-> now + deb.wait, args |-> deb'.last.args]
       /\ deb'.invoked = deb.invoked

(* C28 as stated: an invocation of func comes wait ms after the most       *)
(* recent call, with its arguments; a call cancels the pending invocation; *)
(* and each quiet period has its invocation: no call finds pending an      *)
(* invocation whose wait has already passed.                               *)
C28_OncePerQuietPeriod ==
  [][ /\ InvokedForLastCall
      /\ CallCancelsPending
      /\ (DebounceCalled /\ deb.timeout # NoTimeout) => now <= deb.timeout.due ]_vars

(* C28 amended: an invocation of func comes wait ms or more after the most *)
(* recent call, with the arguments of that call and at most once for it;   *)
(* a call made before the callback of the pending timeout has run cancels  *)
(* that invocation, also when wait ms have already passed.                 *)
C28_DebouncedInvocation ==
  [][ /\ InvokedForLastCall
      /\ CallCancelsPending ]_vars

C28_Witness ==
  /\ Len(deb.invoked) = 1
  /\ deb.calls = 3
  /\ deb.wait = DELAY_MS
  /\ deb.invoked[1].calls = 3
  /\ deb.invoked[1].at > deb.last.at + deb.wait

(* The throttled function is called in this step / func is invoked. *)
ThrottleCalled == thr'.calls = thr.calls + 1
ThrottleInvokes == Len(thr'.invoked) = Len(thr.invoked) + 1
SinceInvocation == now - thr.invoked[Len(thr.invoked)].at

(* func is invoked only within a call, at once and with its arguments. *)
InvokedWithinCall ==
  /\ thr'.invoked # thr.invoked
       => /\ ThrottleCalled
          /\ thr'.invoked = Append(thr.invoked, [at |-> now, args |-> thr'.last.args])
  /\ (ThrottleCalled /\ thr.invoked = <<>>) => ThrottleInvokes

(* A call less than limit ms after an invoking call is dropped. *)
DroppedWithinLimit ==
  (ThrottleCalled /\ thr.invoked # <<>> /\ SinceInvocation < thr.limit)
    => thr'.invoked = thr.invoked

(* Any two invocations are limit ms or more apart. *)
InvocationsApart ==
  \A i, j \in DOMAIN thr.invoked :
    i < j => thr.invoked[j].at - thr.invoked[i].at >= thr.limit

=========================================================================
